---- MODULE Spec2Model ----
(***************************************************************************)
(* Model of execute_backtest (src/backtest.py): the bar loop that closes   *)
(* positions by SL/TP, opens positions on signals, values the portfolio,   *)
(* and the forced final close.                                             *)
(*                                                                         *)
(* Arithmetic.  The program computes in floating point; the model computes *)
(* the same expressions exactly, in fixed point:                           *)
(*   - prices and quantities are integers;                                 *)
(*   - comision is the fraction CommNum / CommDen, and every money amount  *)
(*     (start_cap, cash, portfolio value, pnl) is stored multiplied by     *)
(*     CommDen;                                                            *)
(*   - stop_thr and tp_thr are StopNum / ThrDen and TpNum / ThrDen, and    *)
(*     the sl and tp fields of a Trade are stored multiplied by ThrDen;    *)
(*   - the float NaN is the value NaN below: every amount of the model is  *)
(*     a multiple of 125 and every price is positive, so no number of a    *)
(*     run equals it.  Arithmetic with NaN gives NaN and every comparison  *)
(*     with NaN is false, as in the program.                               *)
(***************************************************************************)
EXTENDS Integers, Sequences, FiniteSets

\* ---------------------------------------------------------------------
\* Parameters of execute_backtest (defaults of the signature)
\* ---------------------------------------------------------------------
CommNum == 125          \* comision = 0.125 / 100 = 125 / 100000
CommDen == 100000
StopNum == 2            \* stop_thr = 0.02 = 2 / 100
TpNum   == 4            \* tp_thr   = 0.04 = 4 / 100
ThrDen  == 100
LotSize == 1            \* lot_size = 1.0

\* float("nan"): what float() returns for a NaN cell
NaN == -1

\* a + b in floating point, as far as NaN goes
Plus(a, b) == IF a = NaN \/ b = NaN THEN NaN ELSE a + b

\* ---------------------------------------------------------------------
\* Bounds of the inputs
\* ---------------------------------------------------------------------
MaxBars   == 3
Prices    == {96, 98, 100, 102, 104}
Signals   == {-1, 0, 1}
\* start_cap = 100.125 (exactly the cost of one lot at price 100) and 1000
StartCaps == {100 * (CommDen + CommNum), 1000 * CommDen}

\* A row of the input.  price_cell and signal_cell say what the price and
\* signal cells of the row hold: "number" (price and signal are its value),
\* "text" (a string that float() / int() cannot parse), "absent" (the
\* row has no such field) or "nan" (the cell is empty: pandas holds NaN;
\* float() returns NaN for it and int() raises).
Rows == [price : Prices, signal : Signals,
         price_cell : {"number"}, signal_cell : {"number"}]

\* Inputs of the second specification: signals outside {-1, 0, 1} and rows
\* with a cell that is not a number
PricesAny  == {100, 104}
SignalsAny == {-2, -1, 0, 1, 2}

BadRows ==
    { [price |-> 100, signal |-> 0, price_cell |-> pk, signal_cell |-> sk] :
        <<pk, sk>> \in { <<"text", "number">>, <<"absent", "number">>,
                         <<"number", "text">>, <<"number", "absent">>,
                         <<"number", "nan">> } }
    \cup [price : {NaN}, signal : {0, 1},
          price_cell : {"nan"}, signal_cell : {"number"}]

RowsAny == [price : PricesAny, signal : SignalsAny,
            price_cell : {"number"}, signal_cell : {"number"}]
           \cup BadRows

\* Inputs of the third specification: a price that gaps far beyond the
\* stop of a short entered at 100, and a start_cap (101) that one lot at
\* 100 nearly uses up
PricesGap    == {100, 104, 250}
StartCapsGap == {101 * CommDen, 1000 * CommDen}

RowsGap == [price : PricesGap, signal : Signals,
            price_cell : {"number"}, signal_cell : {"number"}]

VARIABLES
    data,              \* the input rows (df), a sequence of [price, signal]
    start_cap,         \* the start_cap argument, * CommDen
    pc,                \* position in execute_backtest
    i,                 \* index in data of the row the loop is at (1-based)
    cash,              \* cash * CommDen
    active_long,       \* list of Trade
    active_short,      \* list of Trade
    portfolio_values,  \* list of val * CommDen
    trade_pnls,        \* list of pnl * CommDen
    pnl_this_step,     \* local of the loop body, * CommDen
    closed_any,        \* local of the loop body
    result,            \* the returned capital, <<>> until the return
    \* history variables: they record what the run did and are never read
    \* by the actions' guards or by the program variables' updates
    bar_cash,          \* cash at the start of the current iteration
    exit_cash,         \* cash after the two SL/TP scans of the iteration
    long_bars,         \* long_bars[k]: the row on which active_long[k] opened
    short_bars         \* short_bars[k]: the row on which active_short[k] opened

prog == <<data, start_cap, pc, i, cash, active_long, active_short,
          portfolio_values, trade_pnls, pnl_this_step, closed_any, result>>

hist == <<bar_cash, exit_cash, long_bars, short_bars>>

vars == <<prog, hist>>

\* ---------------------------------------------------------------------
\* Helpers on lists
\* ---------------------------------------------------------------------
\* list.remove(x): drops the first element equal (by value) to x
RECURSIVE RemoveFirst(_, _)
RemoveFirst(s, x) ==
    IF s = <<>> THEN <<>>
    ELSE IF Head(s) = x THEN Tail(s)
    ELSE <<Head(s)>> \o RemoveFirst(Tail(s), x)

\* the sum of the numbers of s
RECURSIVE SeqSum(_)
SeqSum(s) == IF s = <<>> THEN 0 ELSE Head(s) + SeqSum(Tail(s))

\* index of the first element of s equal to x, 0 when there is none
RECURSIVE FirstIndex(_, _, _)
FirstIndex(s, x, k) ==
    IF k > Len(s) THEN 0
    ELSE IF s[k] = x THEN k
    ELSE FirstIndex(s, x, k + 1)

\* history: b without the entry of the element that list.remove(x) drops
\* from s
DropBar(b, s, x) ==
    LET k == FirstIndex(s, x, 1)
    IN  IF k = 0 \/ k > Len(b) THEN b
        ELSE SubSeq(b, 1, k - 1) \o SubSeq(b, k + 1, Len(b))

\* the row of the current iteration
price  == data[i].price
signal == data[i].signal

\* float(row[col_price]) or int(row["signal"]) raises: KeyError when the
\* field is absent, ValueError when the cell is text and when int() gets
\* NaN; float() of a NaN cell does not raise
RowRaises(row) ==
    \/ row.price_cell \in {"text", "absent"}
    \/ row.signal_cell \in {"text", "absent", "nan"}

\* ---------------------------------------------------------------------
\* Trade (dataclass: equality is by value of the five fields)
\* ---------------------------------------------------------------------
Trade(side, qty, entry, sl, tp) ==
    [side |-> side, qty |-> qty, entry |-> entry, sl |-> sl, tp |-> tp]

\* ---------------------------------------------------------------------
\* Close by SL / TP
\* ---------------------------------------------------------------------
\* strict comparisons: a price equal to the level does not close
LongExitStrict(pos, p) == p * ThrDen > pos.tp \/ p * ThrDen < pos.sl

LongExit(pos, p)  ==
    p # NaN /\ (p * ThrDen >= pos.tp \/ p * ThrDen <= pos.sl)

\* strict comparisons: a price equal to the level does not close
ShortExitStrict(pos, p) == p * ThrDen < pos.tp \/ p * ThrDen > pos.sl

ShortExit(pos, p) ==
    p # NaN /\ (p * ThrDen <= pos.tp \/ p * ThrDen >= pos.sl)

\* pnl_realized of a long, * CommDen
LongPnl(pos, p) ==
    LET entry_fee == pos.entry * pos.qty * CommNum
        exit_fee  == p * pos.qty * CommNum
    IN  (p - pos.entry) * pos.qty * CommDen - entry_fee - exit_fee

\* cash flow of closing a long, * CommDen
LongCredit(pos, p) == p * pos.qty * (CommDen - CommNum)

\* the entry commission is left out of the reported pnl
ShortPnlNoEntryFee(pos, p) ==
    (pos.entry - p) * pos.qty * CommDen - p * pos.qty * CommNum

\* pnl_realized of a short, * CommDen
ShortPnl(pos, p) ==
    LET pnl_gross == (pos.entry - p) * pos.qty
        entry_fee == pos.entry * pos.qty * CommNum
        exit_fee  == p * pos.qty * CommNum
    IN  pnl_gross * CommDen - entry_fee - exit_fee

\* cash flow of closing a short, * CommDen
ShortCredit(pos, p) ==
    LET pnl_gross == (pos.entry - p) * pos.qty
    IN  IF p = NaN THEN NaN
        ELSE pnl_gross * (CommDen - CommNum) + pos.entry * pos.qty * CommDen

\* a long that stays open has its stop trailed up to the bar's price
LongStepTrailing(st, pos, p) ==
    IF LongExit(pos, p)
    THEN [cash   |-> st.cash + LongCredit(pos, p),
          active |-> RemoveFirst(st.active, pos),
          pnl    |-> st.pnl + LongPnl(pos, p),
          closed |-> TRUE,
          bars   |-> DropBar(st.bars, st.active, pos)]
    ELSE [st EXCEPT !.active =
            [k \in DOMAIN st.active |->
               IF st.active[k] = pos /\ p * (ThrDen - StopNum) > pos.sl
               THEN [pos EXCEPT !.sl = p * (ThrDen - StopNum)]
               ELSE st.active[k]]]

\* one iteration of "for pos in active_long.copy()"; st is the state the
\* loop body mutates: cash, the live list, pnl_this_step, closed_any
LongStep(st, pos, p) ==
    IF LongExit(pos, p)
    THEN [cash   |-> st.cash + LongCredit(pos, p),
          active |-> RemoveFirst(st.active, pos),
          pnl    |-> st.pnl + LongPnl(pos, p),
          closed |-> TRUE,
          bars   |-> DropBar(st.bars, st.active, pos)]
    ELSE st

ShortStep(st, pos, p) ==
    IF ShortExit(pos, p)
    THEN [cash   |-> st.cash + ShortCredit(pos, p),
          active |-> RemoveFirst(st.active, pos),
          pnl    |-> st.pnl + ShortPnl(pos, p),
          closed |-> TRUE,
          bars   |-> DropBar(st.bars, st.active, pos)]
    ELSE st

\* the loop runs over the live list instead of a copy of it
RECURSIVE ScanLongsLive(_, _, _, _)
ScanLongsLive(snap, k, st, p) ==
    IF k > Len(st.active) THEN st
    ELSE ScanLongsLive(snap, k + 1, LongStep(st, st.active[k], p), p)

\* the whole loop over the snapshot snap, from its k-th element on
RECURSIVE ScanLongs(_, _, _, _)
ScanLongs(snap, k, st, p) ==
    IF k > Len(snap) THEN st
    ELSE ScanLongs(snap, k + 1, LongStep(st, snap[k], p), p)

\* the loop runs over the live short list instead of a copy of it
RECURSIVE ScanShortsLive(_, _, _, _)
ScanShortsLive(snap, k, st, p) ==
    IF k > Len(st.active) THEN st
    ELSE ScanShortsLive(snap, k + 1, ShortStep(st, st.active[k], p), p)

RECURSIVE ScanShorts(_, _, _, _)
ScanShorts(snap, k, st, p) ==
    IF k > Len(snap) THEN st
    ELSE ScanShorts(snap, k + 1, ShortStep(st, snap[k], p), p)

\* ---------------------------------------------------------------------
\* Open
\* ---------------------------------------------------------------------
\* the entry commission is left out of the debit
EntryCostNoFee(p) == p * LotSize * CommDen

\* cost = price * lot_size * (1 + comision), * CommDen
EntryCost(p) == p * LotSize * (CommDen + CommNum)

\* affordability decided on the cash the bar started with
AffordableStale(c, p) == bar_cash > EntryCost(p)

\* cash equal to the cost is taken as enough
AffordableNonStrict(c, p) == c >= EntryCost(p)

Affordable(c, p) == p # NaN /\ c > EntryCost(p)

\* a long is opened on every non-negative signal
WantsLongNonNeg(sig) == sig >= 0

\* every positive signal is taken as a buy
WantsLongPositive(sig) == sig > 0

\* "if signal == 1" and "if signal == -1"
WantsLong(sig)  == sig = 1

\* every non-zero signal is taken as a sell
WantsShortNonZero(sig) == sig # 0

WantsShort(sig) == sig = -1

NewLong(p) ==
    Trade("long", LotSize, p, p * (ThrDen - StopNum), p * (ThrDen + TpNum))

NewShort(p) ==
    Trade("short", LotSize, p, p * (ThrDen + StopNum), p * (ThrDen - TpNum))

\* ---------------------------------------------------------------------
\* Valuation
\* ---------------------------------------------------------------------
\* an open long is marked at what its sale would bring, net of commission
LongMarkNetOfFee(pos, p) == pos.qty * p * (CommDen - CommNum)

LongMark(pos, p)  == IF p = NaN THEN NaN ELSE pos.qty * p * CommDen

\* the reserved notional is left out of the mark of a short
ShortMarkPnlOnly(pos, p) == (pos.entry - p) * pos.qty * CommDen

ShortMark(pos, p) ==
    IF p = NaN THEN NaN
    ELSE ((pos.entry - p) * pos.qty + pos.entry * pos.qty) * CommDen

RECURSIVE AddLongMarks(_, _, _, _)
AddLongMarks(val, s, k, p) ==
    IF k > Len(s) THEN val
    ELSE AddLongMarks(Plus(val, LongMark(s[k], p)), s, k + 1, p)

RECURSIVE AddShortMarks(_, _, _, _)
AddShortMarks(val, s, k, p) ==
    IF k > Len(s) THEN val
    ELSE AddShortMarks(Plus(val, ShortMark(s[k], p)), s, k + 1, p)

Valuation(c, longs, shorts, p) ==
    AddShortMarks(AddLongMarks(c, longs, 1, p), shorts, 1, p)

\* ---------------------------------------------------------------------
\* Forced final close
\* ---------------------------------------------------------------------
RECURSIVE SumQty(_, _)
SumQty(s, k) == IF k > Len(s) THEN 0 ELSE s[k].qty + SumQty(s, k + 1)

\* the remaining longs are sold without the exit commission
FinalCloseLongsNoFee(c, longs, last_price) ==
    IF longs # <<>>
    THEN c + last_price * SumQty(longs, 1) * CommDen
    ELSE c

\* the batch is credited with the quantity of its first position only
FinalCloseLongsFirstQty(c, longs, last_price) ==
    IF longs # <<>>
    THEN c + last_price * longs[1].qty * (CommDen - CommNum)
    ELSE c

\* cash after "if active_long: ..."
FinalCloseLongs(c, longs, last_price) ==
    IF longs # <<>>
    THEN Plus(c, IF last_price = NaN THEN NaN
                 ELSE last_price * SumQty(longs, 1) * (CommDen - CommNum))
    ELSE c

\* only the first remaining short is credited
FinalCloseShortsFirstOnly(c, shorts, k, last_price) ==
    IF shorts = <<>> THEN c ELSE c + (shorts[1].entry - last_price)
            * shorts[1].qty * (CommDen - CommNum)
            + shorts[1].entry * shorts[1].qty * CommDen

\* cash after "if active_short: for p in active_short: ..."
RECURSIVE FinalCloseShorts(_, _, _, _)
FinalCloseShorts(c, shorts, k, last_price) ==
    IF k > Len(shorts) THEN c
    ELSE FinalCloseShorts(Plus(c, ShortCredit(shorts[k], last_price)),
                          shorts, k + 1, last_price)

\* ---------------------------------------------------------------------
\* The state machine
\* ---------------------------------------------------------------------
Init ==
    /\ data \in UNION { [1..n -> Rows] : n \in 0..MaxBars }
    /\ start_cap \in StartCaps
    /\ cash = start_cap
    /\ active_long = <<>>
    /\ active_short = <<>>
    /\ portfolio_values = <<>>
    /\ trade_pnls = <<>>
    /\ pnl_this_step = 0
    /\ closed_any = FALSE
    /\ i = 1
    /\ pc = IF Len(data) = 0 THEN "final" ELSE "close_longs"
    /\ result = <<>>
    /\ bar_cash = cash
    /\ exit_cash = cash
    /\ long_bars = <<>>
    /\ short_bars = <<>>

\* start of the loop body and "for pos in active_long.copy()"
CloseLongs ==
    /\ pc = "close_longs"
    /\ ~RowRaises(data[i])
    /\ LET st == ScanLongs(active_long, 1,
                           [cash |-> cash, active |-> active_long,
                            pnl |-> 0, closed |-> FALSE,
                            bars |-> long_bars], price)
       IN  /\ cash' = st.cash
           /\ active_long' = st.active
           /\ pnl_this_step' = st.pnl
           /\ closed_any' = st.closed
           /\ long_bars' = st.bars
    /\ pc' = "close_shorts"
    /\ bar_cash' = cash
    /\ UNCHANGED <<data, start_cap, i, active_short, portfolio_values,
                   trade_pnls, result, exit_cash, short_bars>>

\* "for pos in active_short.copy()"
CloseShorts ==
    /\ pc = "close_shorts"
    /\ LET st == ScanShorts(active_short, 1,
                            [cash |-> cash, active |-> active_short,
                             pnl |-> pnl_this_step, closed |-> closed_any,
                             bars |-> short_bars],
                            price)
       IN  /\ cash' = st.cash
           /\ active_short' = st.active
           /\ pnl_this_step' = st.pnl
           /\ closed_any' = st.closed
           /\ short_bars' = st.bars
    /\ pc' = "open_long"
    /\ exit_cash' = cash'
    /\ UNCHANGED <<data, start_cap, i, active_long, portfolio_values,
                   trade_pnls, result, bar_cash, long_bars>>

\* "if signal == 1: ..."
OpenLong ==
    /\ pc = "open_long"
    /\ IF WantsLong(signal) /\ Affordable(cash, price)
       THEN /\ cash' = cash - EntryCost(price)
            /\ active_long' = Append(active_long, NewLong(price))
            /\ long_bars' = Append(long_bars, i)
       ELSE UNCHANGED <<cash, active_long, long_bars>>
    /\ pc' = "open_short"
    /\ UNCHANGED <<data, start_cap, i, active_short, portfolio_values,
                   trade_pnls, pnl_this_step, closed_any, result,
                   bar_cash, exit_cash, short_bars>>

\* a sell that cannot be afforded still pays the entry commission
OpenShortChargesRefused ==
    /\ pc = "open_short"
    /\ IF WantsShort(signal) /\ Affordable(cash, price)
       THEN /\ cash' = cash - EntryCost(price)
            /\ active_short' = Append(active_short, NewShort(price))
            /\ short_bars' = Append(short_bars, i)
       ELSE /\ cash' = IF WantsShort(signal)
                       THEN cash - price * LotSize * CommNum
                       ELSE cash
            /\ UNCHANGED <<active_short, short_bars>>
    /\ pc' = "valuation"
    /\ UNCHANGED <<data, start_cap, i, active_long, portfolio_values,
                   trade_pnls, pnl_this_step, closed_any, result,
                   bar_cash, exit_cash, long_bars>>

\* "if signal == -1: ..."
OpenShort ==
    /\ pc = "open_short"
    /\ IF WantsShort(signal) /\ Affordable(cash, price)
       THEN /\ cash' = cash - EntryCost(price)
            /\ active_short' = Append(active_short, NewShort(price))
            /\ short_bars' = Append(short_bars, i)
       ELSE UNCHANGED <<cash, active_short, short_bars>>
    /\ pc' = "valuation"
    /\ UNCHANGED <<data, start_cap, i, active_long, portfolio_values,
                   trade_pnls, pnl_this_step, closed_any, result,
                   bar_cash, exit_cash, long_bars>>

\* a bar on which nothing closed gets no trade_pnl record
ValuateSkipsFlat ==
    /\ pc = "valuation"
    /\ portfolio_values' =
           Append(portfolio_values,
                  Valuation(cash, active_long, active_short, price))
    /\ trade_pnls' = IF closed_any THEN Append(trade_pnls, pnl_this_step)
                                   ELSE trade_pnls
    /\ IF i < Len(data)
       THEN i' = i + 1 /\ pc' = "close_longs"
       ELSE i' = i /\ pc' = "final"
    /\ UNCHANGED <<data, start_cap, cash, active_long, active_short,
                   pnl_this_step, closed_any, result, hist>>

\* valuation, the two appends, and the step to the next row
Valuate ==
    /\ pc = "valuation"
    /\ portfolio_values' =
           Append(portfolio_values,
                  Valuation(cash, active_long, active_short, price))
    /\ trade_pnls' = Append(trade_pnls,
                            IF closed_any THEN pnl_this_step ELSE 0)
    /\ IF i < Len(data)
       THEN i' = i + 1 /\ pc' = "close_longs"
       ELSE i' = i /\ pc' = "final"
    /\ UNCHANGED <<data, start_cap, cash, active_long, active_short,
                   pnl_this_step, closed_any, result, hist>>

\* the forced close also adds what it realizes to the last trade_pnl
FinalizeRecordsPnl ==
    /\ pc = "final"
    /\ IF Len(data) > 0
       THEN LET last_price == data[Len(data)].price
                c1 == FinalCloseLongs(cash, active_long, last_price)
                c2 == FinalCloseShorts(c1, active_short, 1, last_price)
            IN  /\ cash' = c2
                /\ active_long' = <<>>
                /\ active_short' = <<>>
                /\ long_bars' = <<>>
                /\ short_bars' = <<>>
                /\ portfolio_values' =
                       [portfolio_values EXCEPT ![Len(portfolio_values)] = c2]
                /\ trade_pnls' =
                       [trade_pnls EXCEPT ![Len(trade_pnls)] =
                            @ + SeqSum([k \in DOMAIN active_long |->
                                          LongPnl(active_long[k], last_price)])
                              + SeqSum([k \in DOMAIN active_short |->
                                          ShortPnl(active_short[k], last_price)])]
       ELSE UNCHANGED <<cash, active_long, active_short, portfolio_values,
                        long_bars, short_bars, trade_pnls>>
    /\ result' = <<cash'>>
    /\ pc' = "done"
    /\ UNCHANGED <<data, start_cap, i, pnl_this_step, closed_any,
                   bar_cash, exit_cash>>

\* the return sits inside "if len(df) > 0": an empty input returns nothing
FinalizeReturnsInsideIf ==
    /\ pc = "final"
    /\ IF Len(data) > 0
       THEN LET last_price == data[Len(data)].price
                c1 == FinalCloseLongs(cash, active_long, last_price)
                c2 == FinalCloseShorts(c1, active_short, 1, last_price)
            IN  /\ cash' = c2
                /\ active_long' = <<>>
                /\ active_short' = <<>>
                /\ long_bars' = <<>>
                /\ short_bars' = <<>>
                /\ portfolio_values' =
                       [portfolio_values EXCEPT ![Len(portfolio_values)] = c2]
                /\ result' = <<c2>>
       ELSE UNCHANGED <<cash, active_long, active_short, portfolio_values,
                        long_bars, short_bars, result>>
    /\ pc' = "done"
    /\ UNCHANGED <<data, start_cap, i, trade_pnls, pnl_this_step, closed_any,
                   bar_cash, exit_cash>>

\* "if len(df) > 0: ..." and the return
Finalize ==
    /\ pc = "final"
    /\ IF Len(data) > 0
       THEN LET last_price == data[Len(data)].price
                c1 == FinalCloseLongs(cash, active_long, last_price)
                c2 == FinalCloseShorts(c1, active_short, 1, last_price)
            IN  /\ cash' = c2
                /\ active_long' = <<>>
                /\ active_short' = <<>>
                /\ long_bars' = <<>>
                /\ short_bars' = <<>>
                /\ portfolio_values' =
                       [portfolio_values EXCEPT ![Len(portfolio_values)] = c2]
       ELSE UNCHANGED <<cash, active_long, active_short, portfolio_values,
                        long_bars, short_bars>>
    /\ result' = <<cash'>>
    /\ pc' = "done"
    /\ UNCHANGED <<data, start_cap, i, trade_pnls, pnl_this_step, closed_any,
                   bar_cash, exit_cash>>

Next ==
    \/ CloseLongs
    \/ CloseShorts
    \/ OpenLong
    \/ OpenShort
    \/ Valuate
    \/ Finalize

Spec == Init /\ [][Next]_vars

\* ---------------------------------------------------------------------
\* Second specification: any signal, rows that make the conversions raise
\* ---------------------------------------------------------------------
InitAny ==
    /\ data \in UNION { [1..n -> RowsAny] : n \in 0..MaxBars }
    /\ start_cap = 1000 * CommDen
    /\ cash = start_cap
    /\ active_long = <<>>
    /\ active_short = <<>>
    /\ portfolio_values = <<>>
    /\ trade_pnls = <<>>
    /\ pnl_this_step = 0
    /\ closed_any = FALSE
    /\ i = 1
    /\ pc = IF Len(data) = 0 THEN "final" ELSE "close_longs"
    /\ result = <<>>
    /\ bar_cash = cash
    /\ exit_cash = cash
    /\ long_bars = <<>>
    /\ short_bars = <<>>

\* the exception of float() / int() leaves execute_backtest: nothing is
\* returned
RaiseOnRow ==
    /\ pc = "close_longs"
    /\ RowRaises(data[i])
    /\ pc' = "error"
    /\ UNCHANGED <<data, start_cap, i, cash, active_long, active_short,
                   portfolio_values, trade_pnls, pnl_this_step, closed_any,
                   result, hist>>

NextAny ==
    \/ Next
    \/ RaiseOnRow

SpecAny == InitAny /\ [][NextAny]_vars

\* ---------------------------------------------------------------------
\* The run is one sequential computation: a step that can be taken is
\* taken
\* ---------------------------------------------------------------------
SpecFair == Spec /\ WF_vars(Next)

\* ---------------------------------------------------------------------
\* Third specification: valid rows whose prices gap
\* ---------------------------------------------------------------------
InitGap ==
    /\ data \in UNION { [1..n -> RowsGap] : n \in 0..MaxBars }
    /\ start_cap \in StartCapsGap
    /\ cash = start_cap
    /\ active_long = <<>>
    /\ active_short = <<>>
    /\ portfolio_values = <<>>
    /\ trade_pnls = <<>>
    /\ pnl_this_step = 0
    /\ closed_any = FALSE
    /\ i = 1
    /\ pc = IF Len(data) = 0 THEN "final" ELSE "close_longs"
    /\ result = <<>>
    /\ bar_cash = cash
    /\ exit_cash = cash
    /\ long_bars = <<>>
    /\ short_bars = <<>>

SpecGap == InitGap /\ [][Next]_vars

\* =====================================================================
\* Properties
\* =====================================================================
Range(s) == { s[k] : k \in DOMAIN s }

Last(s) == s[Len(s)]

\* the entry cost of one lot at price p, written out: p * lot * (1 + c)
CostAt(p) == p * LotSize * CommDen + p * LotSize * CommNum

TypeOK ==
    /\ pc \in {"close_longs", "close_shorts", "open_long", "open_short",
               "valuation", "final", "done", "error"}
    /\ cash \in Int
    /\ Len(portfolio_values) = Len(trade_pnls)

\* ---------------------------------------------------------------------
\* C1.  Exits run before entries within a bar: on a bar whose signal is
\* +1 or -1, if the cash at the start of the bar does not exceed the entry
\* cost but the cash after the bar's SL/TP closes does, the position is
\* opened on that same bar (and the cost is debited from the freed cash).
\* ---------------------------------------------------------------------
C1_ExitsFundSameBarEntry ==
    (/\ pc = "valuation"
     /\ signal \in {1, -1}
     /\ bar_cash <= CostAt(price)
     /\ exit_cash > CostAt(price))
    => /\ cash = exit_cash - CostAt(price)
       /\ signal = 1 =>
             /\ active_long # <<>>
             /\ Last(active_long).entry = price
             /\ Last(long_bars) = i
       /\ signal = -1 =>
             /\ active_short # <<>>
             /\ Last(active_short).entry = price
             /\ Last(short_bars) = i

C1_Witness ==
    /\ pc = "valuation"
    /\ signal = 1
    /\ bar_cash <= CostAt(price)
    /\ exit_cash > CostAt(price)
    /\ long_bars # <<>>
    /\ Last(long_bars) = i

\* ---------------------------------------------------------------------
\* C2.  As claimed: every position is closed at the price of a bar
\* strictly later than the bar on which it was opened, the forced final
\* close included.  The SL/TP scans of row i and the forced close (at the
\* price of the last row) are the only closes.
\* ---------------------------------------------------------------------
C2_ClosedStrictlyLater ==
    [][ /\ pc = "close_longs" =>
              \A b \in Range(long_bars) \ Range(long_bars') : b < i
        /\ pc = "close_shorts" =>
              \A b \in Range(short_bars) \ Range(short_bars') : b < i
        /\ pc = "final" =>
              \A b \in (Range(long_bars) \ Range(long_bars'))
                        \cup (Range(short_bars) \ Range(short_bars')) :
                  b < Len(data)
      ]_vars

\* C2 as amended: a position closed by an SL/TP scan is closed at the
\* price of a row strictly later than the row on which it was opened; every
\* position still open after the last row, one opened on the last row
\* included, is closed by the forced final close at the last row's price.
C2_ScanLaterFinalAtLast ==
    [][ /\ pc = "close_longs" =>
              \A b \in Range(long_bars) \ Range(long_bars') : b < i
        /\ pc = "close_shorts" =>
              \A b \in Range(short_bars) \ Range(short_bars') : b < i
        /\ (pc = "final" /\ Len(data) > 0) =>
              LET lp == data[Len(data)].price
              IN  /\ long_bars' = <<>> /\ short_bars' = <<>>
                  /\ \A b \in Range(long_bars) \cup Range(short_bars) :
                         b <= Len(data)
                  /\ cash' - cash =
                       SeqSum([k \in DOMAIN active_long |->
                                 lp * active_long[k].qty * (CommDen - CommNum)])
                     + SeqSum([k \in DOMAIN active_short |->
                                 (active_short[k].entry - lp)
                                     * active_short[k].qty * (CommDen - CommNum)
                                 + active_short[k].entry
                                     * active_short[k].qty * CommDen])
      ]_vars

\* a forced close has closed positions opened on the last row and on an
\* earlier row, after a scan of the last row closed a position
C2_Witness ==
    /\ pc = "final"
    /\ closed_any
    /\ Len(data) \in Range(long_bars) \cup Range(short_bars)
    /\ \E b \in Range(long_bars) \cup Range(short_bars) : b < Len(data)

\* ---------------------------------------------------------------------
\* C3.  Cash conservation: when every signal of the input is 0, every
\* recorded portfolio_value equals start_cap, every recorded trade_pnl is
\* 0, and the returned final cash equals start_cap.
\* ---------------------------------------------------------------------
C3_CashConservation ==
    (\A k \in DOMAIN data : data[k].signal = 0)
    => /\ \A k \in DOMAIN portfolio_values :
             portfolio_values[k] = start_cap
       /\ \A k \in DOMAIN trade_pnls : trade_pnls[k] = 0
       /\ cash = start_cap
       /\ pc = "done" => /\ result = <<start_cap>>
                          /\ Len(portfolio_values) = Len(data)
                          /\ Len(trade_pnls) = Len(data)

C3_Witness ==
    /\ pc = "done"
    /\ Len(data) >= 2
    /\ \A k \in DOMAIN data : data[k].signal = 0
    /\ data[1].price # data[2].price

\* ---------------------------------------------------------------------
\* C4.  Forced liquidation: for a non-empty input, the step after the last
\* bar closes every remaining long and short at the last bar's price,
\* empties both open sets, overwrites the last portfolio_value with the
\* resulting cash and returns that same cash.
\* ---------------------------------------------------------------------
C4_ForcedLiquidation ==
    [][ (pc = "final" /\ Len(data) > 0) =>
          LET n  == Len(data)
              lp == data[n].price
          IN  /\ cash' = cash
                   + SeqSum([k \in DOMAIN active_long |->
                               lp * active_long[k].qty * CommDen
                               - lp * active_long[k].qty * CommNum])
                   + SeqSum([k \in DOMAIN active_short |->
                               (active_short[k].entry - lp)
                                   * active_short[k].qty * (CommDen - CommNum)
                               + active_short[k].entry
                                   * active_short[k].qty * CommDen])
              /\ active_long' = <<>>
              /\ active_short' = <<>>
              /\ Len(portfolio_values') = n
              /\ portfolio_values'[n] = cash'
              /\ \A k \in 1..(n - 1) :
                     portfolio_values'[k] = portfolio_values[k]
              /\ result' = <<cash'>>
              /\ pc' = "done"
      ]_vars

\* the run is over and its forced close credited cash: the final cash is
\* not what the last bar's exits and entry left
C4_Witness ==
    /\ pc = "done"
    /\ Len(data) > 0
    /\ result = <<cash>>
    /\ Last(portfolio_values) = cash
    /\ cash \notin {exit_cash, exit_cash - CostAt(data[Len(data)].price)}

\* ---------------------------------------------------------------------
\* C5.  Entry debit: a step that opens a long or a short at price p with
\* quantity q debits exactly p * q * (1 + c) from cash, and cash changes in
\* no other step of the entry phase; on a bar with no exit and no entry the
\* cash is what the previous bar left.
\* ---------------------------------------------------------------------
C5_EntryDebit ==
    [][ /\ pc \in {"open_long", "open_short"} =>
              IF \/ Len(active_long') > Len(active_long)
                 \/ Len(active_short') > Len(active_short)
              THEN LET new == IF pc = "open_long" THEN Last(active_long')
                                                  ELSE Last(active_short')
                   IN  /\ new.entry = price
                       /\ cash' = cash - (new.entry * new.qty * CommDen
                                          + new.entry * new.qty * CommNum)
              ELSE cash' = cash
        /\ (/\ pc' = "valuation"
            /\ ~closed_any'
            /\ i \notin Range(long_bars') \cup Range(short_bars'))
           => cash' = bar_cash'
        /\ pc = "valuation" => cash' = cash
      ]_vars

\* the bar after an entry, with no exit and no entry: cash is still the
\* debited amount
C5_Witness ==
    /\ pc = "valuation"
    /\ i = 2
    /\ ~closed_any
    /\ Range(long_bars) \cup Range(short_bars) = {1}
    /\ cash = start_cap - CostAt(data[1].price)

\* the positions of list s whose exit condition, written out for each
\* side, holds at price p
LongHits(s, p) ==
    { k \in DOMAIN s : p * ThrDen >= s[k].tp \/ p * ThrDen <= s[k].sl }

ShortHits(s, p) ==
    { k \in DOMAIN s : p * ThrDen <= s[k].tp \/ p * ThrDen >= s[k].sl }

\* list s without the positions at the indices in K, order kept
RECURSIVE Without(_, _, _)
Without(s, K, k) ==
    IF k > Len(s) THEN <<>>
    ELSE (IF k \in K THEN <<>> ELSE <<s[k]>>) \o Without(s, K, k + 1)

\* ---------------------------------------------------------------------
\* C6.  Long exit: the scan of a bar closes exactly the open longs with
\* price >= tp or price <= sl (non-strict), a long with sl < price < tp
\* stays open, and each close adds price * qty * (1 - c) to cash.
\* ---------------------------------------------------------------------
C6_LongExit ==
    [][ pc = "close_longs" =>
          LET hit == LongHits(active_long, price)
          IN  /\ active_long' = Without(active_long, hit, 1)
              /\ \A k \in DOMAIN active_long :
                     (active_long[k].sl < price * ThrDen
                        /\ price * ThrDen < active_long[k].tp)
                     => k \notin hit
              /\ cash' = cash
                   + SeqSum([k \in DOMAIN active_long |->
                               IF k \in hit
                               THEN price * active_long[k].qty * CommDen
                                    - price * active_long[k].qty * CommNum
                               ELSE 0])
      ]_vars

\* a scan closed a long at a price equal to its take-profit level and
\* left another long open
C6_Witness ==
    /\ pc = "close_shorts"
    /\ closed_any
    /\ active_long # <<>>
    /\ cash - bar_cash = price * LotSize * (CommDen - CommNum)
    /\ \E j \in 1..(i - 1) :
          /\ data[j].signal = 1
          /\ data[j].price * (ThrDen + TpNum) = price * ThrDen
          /\ j \notin Range(long_bars)

\* ---------------------------------------------------------------------
\* C7.  Short mirroring: a short opened at p0 gets sl = p0 * (1 + stop_thr)
\* and tp = p0 * (1 - tp_thr), a long gets sl = p0 * (1 - stop_thr) and
\* tp = p0 * (1 + tp_thr); the scan of a bar closes exactly the open shorts
\* with price <= tp or price >= sl, so a price equal to p0 * (1 + stop_thr)
\* closes the short on that bar.
\* ---------------------------------------------------------------------
C7_ShortMirroring ==
    [][ /\ (pc = "open_short" /\ Len(active_short') > Len(active_short)) =>
              LET new == Last(active_short')
              IN  /\ new.side = "short"
                  /\ new.entry = price
                  /\ new.sl = price * ThrDen + price * StopNum
                  /\ new.tp = price * ThrDen - price * TpNum
        /\ (pc = "open_long" /\ Len(active_long') > Len(active_long)) =>
              LET new == Last(active_long')
              IN  /\ new.side = "long"
                  /\ new.entry = price
                  /\ new.sl = price * ThrDen - price * StopNum
                  /\ new.tp = price * ThrDen + price * TpNum
        /\ pc = "close_shorts" =>
              /\ active_short' =
                     Without(active_short, ShortHits(active_short, price), 1)
              /\ \A k \in DOMAIN active_short :
                     price * ThrDen = active_short[k].entry * (ThrDen + StopNum)
                     => \A m \in DOMAIN active_short' :
                            active_short'[m] # active_short[k]
      ]_vars

\* a short opened at p0 has just been closed by a scan at a price equal to
\* p0 * (1 + stop_thr)
C7_Witness ==
    /\ pc = "open_long"
    /\ closed_any
    /\ \E j \in 1..(i - 1) :
          /\ data[j].signal = -1
          /\ data[j].price * (ThrDen + StopNum) = price * ThrDen
          /\ j \notin Range(short_bars)
          /\ exit_cash - bar_cash =
                (data[j].price - price) * LotSize * (CommDen - CommNum)
                + data[j].price * LotSize * CommDen

\* ---------------------------------------------------------------------
\* C8.  No double-processing: a scan removes each position whose exit
\* condition is met exactly once and credits its close exactly once, also
\* when open positions are equal by value; the open lists change in no
\* other way than a scan removing, an entry appending one position and the
\* forced close emptying them, so a closed position is in no later
\* valuation or close.
\* ---------------------------------------------------------------------
C8_NoDoubleProcessing ==
    [][ /\ pc = "close_longs" =>
              LET hit == LongHits(active_long, price)
              IN  /\ Len(active_long') = Len(active_long) - Cardinality(hit)
                  /\ active_long' = Without(active_long, hit, 1)
                  /\ cash' - cash =
                       SeqSum([k \in DOMAIN active_long |->
                                 IF k \in hit
                                 THEN price * active_long[k].qty
                                            * (CommDen - CommNum)
                                 ELSE 0])
                  /\ active_short' = active_short
        /\ pc = "close_shorts" =>
              LET hit == ShortHits(active_short, price)
              IN  /\ Len(active_short') = Len(active_short) - Cardinality(hit)
                  /\ active_short' = Without(active_short, hit, 1)
                  /\ cash' - cash =
                       SeqSum([k \in DOMAIN active_short |->
                                 IF k \in hit
                                 THEN (active_short[k].entry - price)
                                          * active_short[k].qty
                                          * (CommDen - CommNum)
                                      + active_short[k].entry
                                          * active_short[k].qty * CommDen
                                 ELSE 0])
                  /\ active_long' = active_long
        /\ pc = "open_long" =>
              /\ SubSeq(active_long', 1, Len(active_long)) = active_long
              /\ Len(active_long') <= Len(active_long) + 1
              /\ active_short' = active_short
        /\ pc = "open_short" =>
              /\ SubSeq(active_short', 1, Len(active_short)) = active_short
              /\ Len(active_short') <= Len(active_short) + 1
              /\ active_long' = active_long
        /\ pc = "valuation" =>
              /\ active_long' = active_long
              /\ active_short' = active_short
        /\ pc = "final" =>
              /\ active_long' = <<>>
              /\ active_short' = <<>>
        \* the lists hold exactly the positions opened and not yet closed
        /\ Len(long_bars') = Len(active_long')
        /\ Len(short_bars') = Len(active_short')
        /\ \A k \in DOMAIN active_long' :
               active_long'[k].entry = data[long_bars'[k]].price
        /\ \A k \in DOMAIN active_short' :
               active_short'[k].entry = data[short_bars'[k]].price
      ]_vars

\* a scan has just closed two longs that were equal by value, each
\* credited once
C8_Witness ==
    /\ pc = "close_shorts"
    /\ closed_any
    /\ active_long = <<>>
    /\ cash - bar_cash = 2 * price * LotSize * (CommDen - CommNum)
    /\ \E j1, j2 \in 1..(i - 1) :
          /\ j1 < j2
          /\ data[j1] = data[j2]
          /\ data[j1].signal = 1

\* ---------------------------------------------------------------------
\* C9.  Commission on notional at every open and every close: each open
\* debits price * qty plus commission * price * qty, and each close (by
\* SL/TP or forced, long or short) credits the position's commission-free
\* mark-to-market value at the bar price minus commission * price * qty; so
\* no close credits more than the commission-free mark-to-market value.
\* ---------------------------------------------------------------------
C9_CommissionOnNotional ==
    [][ LET fee(q, p)  == q * p * CommNum
            lmark(x, p) == x.qty * p * CommDen
            smark(x, p) == ((x.entry - p) * x.qty + x.entry * x.qty) * CommDen
            lp == data[Len(data)].price
        IN
        /\ (pc \in {"open_long", "open_short"} /\ cash' # cash) =>
              cash' = cash - price * LotSize * CommDen - fee(LotSize, price)
        /\ pc = "close_longs" =>
              cash' - cash =
                SeqSum([k \in DOMAIN active_long |->
                          IF k \in LongHits(active_long, price)
                          THEN lmark(active_long[k], price)
                               - fee(active_long[k].qty, price)
                          ELSE 0])
        /\ pc = "close_shorts" =>
              /\ cash' - cash =
                   SeqSum([k \in DOMAIN active_short |->
                             IF k \in ShortHits(active_short, price)
                             THEN smark(active_short[k], price)
                                  - fee(active_short[k].qty, price)
                             ELSE 0])
              /\ cash' - cash <=
                   SeqSum([k \in DOMAIN active_short |->
                             IF k \in ShortHits(active_short, price)
                             THEN smark(active_short[k], price)
                             ELSE 0])
        /\ (pc = "final" /\ Len(data) > 0) =>
              cash' - cash =
                SeqSum([k \in DOMAIN active_long |->
                          lmark(active_long[k], lp)
                          - fee(active_long[k].qty, lp)])
                + SeqSum([k \in DOMAIN active_short |->
                          smark(active_short[k], lp)
                          - fee(active_short[k].qty, lp)])
      ]_vars

\* ---------------------------------------------------------------------
\* C10.  Per-bar valuation: for every bar that is not the last one, the
\* recorded portfolio_value is the cash after that bar's exits and entries
\* plus qty * price for every long then open plus
\* (entry - price) * qty + entry * qty for every short then open, at the
\* bar's price; the record is not changed afterwards.
\* ---------------------------------------------------------------------
C10_PerBarValuation ==
    [][ /\ (pc = "valuation" /\ i < Len(data)) =>
              /\ Len(portfolio_values') = i
              /\ portfolio_values'[i] =
                     cash
                     + SeqSum([k \in DOMAIN active_long |->
                                 active_long[k].qty * price * CommDen])
                     + SeqSum([k \in DOMAIN active_short |->
                                 (active_short[k].entry - price)
                                     * active_short[k].qty * CommDen
                                 + active_short[k].entry
                                     * active_short[k].qty * CommDen])
              /\ cash' = cash
        /\ \A k \in DOMAIN portfolio_values :
               k < Len(data) =>
                  /\ k \in DOMAIN portfolio_values'
                  /\ portfolio_values'[k] = portfolio_values[k]
      ]_vars

\* a bar that is not the last has been valued after a scan closed a
\* position on it and an entry opened a short on it
C10_Witness ==
    /\ pc = "close_longs"
    /\ i > 1
    /\ Len(portfolio_values) = i - 1
    /\ closed_any
    /\ (i - 1) \in Range(short_bars)
    /\ portfolio_values[i - 1] # cash

\* the elements of s in reverse order
Reverse(s) == [k \in DOMAIN s |-> s[Len(s) + 1 - k]]

\* ---------------------------------------------------------------------
\* C11.  trade_pnl per bar: the trade_pnl recorded for a bar is the sum,
\* over the positions the SL/TP scans closed on that bar, of
\* (price - entry) * qty - entry * qty * c - price * qty * c for a long and
\* (entry - price) * qty - entry * qty * c - price * qty * c for a short,
\* and 0 when no position closed; the sum is the same when the closes are
\* added up in the reverse order.
\* ---------------------------------------------------------------------
C11_TradePnl ==
    [][ LET lpnl(x) == (price - x.entry) * x.qty * CommDen
                       - x.entry * x.qty * CommNum - price * x.qty * CommNum
            spnl(x) == (x.entry - price) * x.qty * CommDen
                       - x.entry * x.qty * CommNum - price * x.qty * CommNum
            lsum == SeqSum(Reverse(
                      [k \in DOMAIN active_long |->
                         IF k \in LongHits(active_long, price)
                         THEN lpnl(active_long[k]) ELSE 0]))
            ssum == SeqSum(Reverse(
                      [k \in DOMAIN active_short |->
                         IF k \in ShortHits(active_short, price)
                         THEN spnl(active_short[k]) ELSE 0]))
        IN
        /\ pc = "close_longs" =>
              /\ pnl_this_step' = lsum
              /\ closed_any' = (LongHits(active_long, price) # {})
        /\ pc = "close_shorts" =>
              /\ pnl_this_step' = pnl_this_step + ssum
              /\ closed_any' =
                    (closed_any \/ ShortHits(active_short, price) # {})
        /\ pc \in {"open_long", "open_short"} =>
              /\ pnl_this_step' = pnl_this_step
              /\ closed_any' = closed_any
        /\ pc = "valuation" =>
              /\ Len(trade_pnls') = i
              /\ trade_pnls'[i] = pnl_this_step
              /\ ~closed_any => trade_pnls'[i] = 0
              /\ \A k \in 1..(i - 1) : trade_pnls'[k] = trade_pnls[k]
      ]_vars

\* a bar on which the scans closed a long and a short has been recorded
C11_Witness ==
    /\ pc \in {"close_longs", "final"}
    /\ trade_pnls # <<>>
    /\ closed_any
    /\ Last(trade_pnls) = pnl_this_step
    /\ \E j1, j2 \in 1..(Len(trade_pnls) - 1) :
          /\ data[j1].signal = 1
          /\ data[j2].signal = -1
          /\ LET p  == data[Len(trade_pnls)].price
                  e1 == data[j1].price
                  e2 == data[j2].price
              IN  /\ exit_cash - bar_cash =
                        p * LotSize * (CommDen - CommNum)
                        + (e2 - p) * LotSize * (CommDen - CommNum)
                        + e2 * LotSize * CommDen
                  /\ Last(trade_pnls) =
                        (p - e1) * LotSize * CommDen
                        - e1 * LotSize * CommNum - p * LotSize * CommNum
                        + (e2 - p) * LotSize * CommDen
                        - e2 * LotSize * CommNum - p * LotSize * CommNum

\* ---------------------------------------------------------------------
\* C12.  Finalizer asymmetry: the forced close after the last bar changes
\* only cash, the open sets and the last portfolio_value; every trade_pnl,
\* the last one included, keeps the value the SL/TP scans of its bar gave
\* it, so no trade_pnl contains PnL realized by a forced close.
\* ---------------------------------------------------------------------
C12_FinalizerAsymmetry ==
    [][ pc = "final" =>
          /\ trade_pnls' = trade_pnls
          /\ Len(data) > 0 =>
                Last(trade_pnls') = (IF closed_any THEN pnl_this_step ELSE 0)
          /\ Len(portfolio_values') = Len(portfolio_values)
          /\ \A k \in 1..(Len(portfolio_values) - 1) :
                 portfolio_values'[k] = portfolio_values[k]
          /\ data' = data
          /\ start_cap' = start_cap
      ]_vars

\* the forced close has credited the close of positions left open by a
\* last bar without signal and without scan close, and the last trade_pnl
\* is still the scans' 0
C12_Witness ==
    /\ pc = "done"
    /\ Len(data) > 0
    /\ ~closed_any
    /\ Last(trade_pnls) = 0
    /\ data[Len(data)].signal = 0
    /\ cash > exit_cash
    /\ Last(portfolio_values) = cash

\* ---------------------------------------------------------------------
\* C13.  Affordability: the entry step of a bar opens a long exactly when
\* the bar's signal is +1 and cash (after the bar's exits) is strictly
\* greater than price * lot_size * (1 + c), and a short exactly when the
\* signal is -1 and cash is strictly greater than that cost; otherwise the
\* step leaves cash and both open sets unchanged and the run goes on, and
\* a later bar opens only on its own signal (a dropped signal is not
\* retried).
\* ---------------------------------------------------------------------
C13_Affordability ==
    [][ LET cost == price * LotSize * CommDen + price * LotSize * CommNum
        IN
        /\ pc = "open_long" =>
              /\ IF signal = 1 /\ cash > cost
                 THEN /\ Len(active_long') = Len(active_long) + 1
                      /\ cash' = cash - cost
                 ELSE /\ active_long' = active_long
                      /\ cash' = cash
              /\ active_short' = active_short
              /\ pc' = "open_short"
        /\ pc = "open_short" =>
              /\ IF signal = -1 /\ cash > cost
                 THEN /\ Len(active_short') = Len(active_short) + 1
                      /\ cash' = cash - cost
                 ELSE /\ active_short' = active_short
                      /\ cash' = cash
              /\ active_long' = active_long
              /\ pc' = "valuation"
        /\ \A b \in Range(long_bars') : data[b].signal = 1
        /\ \A b \in Range(short_bars') : data[b].signal = -1
      ]_vars

\* the first bar's buy signal found cash equal to the cost and was
\* dropped; the second bar, cheaper and without signal, has opened nothing
C13_Witness ==
    /\ pc = "valuation"
    /\ i = 2
    /\ data[1].signal = 1
    /\ start_cap = CostAt(data[1].price)
    /\ data[2].signal = 0
    /\ data[2].price < data[1].price
    /\ cash = start_cap
    /\ active_long = <<>>
    /\ active_short = <<>>

\* ---------------------------------------------------------------------
\* C14.  Empty input: with zero rows the run records no portfolio_value
\* and no trade_pnl, the forced close does nothing, and the returned
\* final cash is start_cap.
\* ---------------------------------------------------------------------
C14_EmptyInput ==
    Len(data) = 0 =>
       /\ pc \in {"final", "done"}
       /\ portfolio_values = <<>>
       /\ trade_pnls = <<>>
       /\ cash = start_cap
       /\ active_long = <<>>
       /\ active_short = <<>>
       /\ pc = "done" => result = <<start_cap>>

C14_Witness ==
    /\ pc = "done"
    /\ Len(data) = 0
    /\ result = <<start_cap>>
    /\ portfolio_values = <<>>

\* ---------------------------------------------------------------------
\* C15.  Out-of-domain signals are holds: on a bar whose signal is an
\* integer outside {-1, 0, 1} the entry step opens nothing and leaves cash
\* and both open sets unchanged, the SL/TP scans and the valuation of the
\* bar run as on any bar, and the run is not rejected.
\* ---------------------------------------------------------------------
C15_OutOfDomainHold ==
    [][ (/\ pc \in {"close_longs", "close_shorts", "open_long",
                    "open_short", "valuation"}
         /\ ~RowRaises(data[i])
         /\ signal \notin {-1, 0, 1})
        => /\ pc' # "error"
           /\ pc = "close_longs" =>
                 /\ pc' = "close_shorts"
                 /\ active_long' =
                       Without(active_long, LongHits(active_long, price), 1)
           /\ pc = "close_shorts" =>
                 /\ pc' = "open_long"
                 /\ active_short' =
                       Without(active_short, ShortHits(active_short, price), 1)
           /\ pc \in {"open_long", "open_short"} =>
                 /\ cash' = cash
                 /\ active_long' = active_long
                 /\ active_short' = active_short
           /\ pc = "valuation" =>
                 /\ Len(portfolio_values') = i
                 /\ Len(trade_pnls') = i
                 /\ portfolio_values'[i] =
                       cash
                       + SeqSum([k \in DOMAIN active_long |->
                                   active_long[k].qty * price * CommDen])
                       + SeqSum([k \in DOMAIN active_short |->
                                   (2 * active_short[k].entry - price)
                                       * active_short[k].qty * CommDen])
                 /\ trade_pnls'[i] = (IF closed_any THEN pnl_this_step ELSE 0)
      ]_vars

\* a bar with signal 2 on which a scan closed a position: the entry steps
\* have left the cash of the exits and opened nothing
C15_Witness ==
    /\ pc = "valuation"
    /\ signal = 2
    /\ closed_any
    /\ cash = exit_cash
    /\ cash # bar_cash
    /\ i \notin Range(long_bars) \cup Range(short_bars)

\* ---------------------------------------------------------------------
\* C16.  Bad rows are fatal: as soon as the loop has read a row whose
\* price or signal is absent, empty or not a number, the run is aborted
\* with an error at that row, it returns nothing, and no later row is
\* processed; such a row is never processed as a bar.
\* ---------------------------------------------------------------------
C16_BadRowsFatal ==
    \A k \in DOMAIN data :
       (/\ data[k].price_cell # "number" \/ data[k].signal_cell # "number"
        /\ \/ k < i
           \/ k = i /\ pc # "close_longs")
       => /\ pc = "error"
          /\ i = k
          /\ result = <<>>
          /\ Len(portfolio_values) = k - 1

\* ---------------------------------------------------------------------
\* C17.  Run lifecycle: for an input of n >= 1 rows the run processes the
\* rows 1..n in order, each in the order exits, entries, valuation, adds
\* exactly one portfolio_value and one trade_pnl per row, then makes the
\* forced close once, and ends; no row is processed twice or after the
\* forced close.
\* ---------------------------------------------------------------------
C17_RunLifecycle ==
    /\ [][ /\ pc = "close_longs" =>
                 /\ pc' = "close_shorts" /\ i' = i
                 /\ Len(portfolio_values) = i - 1
                 /\ Len(trade_pnls) = i - 1
           /\ pc = "close_shorts" => pc' = "open_long" /\ i' = i
           /\ pc = "open_long" => pc' = "open_short" /\ i' = i
           /\ pc = "open_short" => pc' = "valuation" /\ i' = i
           /\ pc \in {"close_shorts", "open_long", "open_short"} =>
                 /\ portfolio_values' = portfolio_values
                 /\ trade_pnls' = trade_pnls
           /\ pc = "valuation" =>
                 /\ Len(portfolio_values') = i
                 /\ Len(trade_pnls') = i
                 /\ SubSeq(portfolio_values', 1, i - 1) = portfolio_values
                 /\ SubSeq(trade_pnls', 1, i - 1) = trade_pnls
                 /\ IF i < Len(data)
                    THEN pc' = "close_longs" /\ i' = i + 1
                    ELSE pc' = "final" /\ i' = i
           /\ pc = "final" =>
                 /\ pc' = "done"
                 /\ Len(portfolio_values') = Len(data)
                 /\ Len(trade_pnls') = Len(data)
           /\ pc # "done"
           /\ data' = data
         ]_vars
    /\ <>(pc = "done")

\* a run over the longest input has ended with one record per row
C17_Witness ==
    /\ pc = "done"
    /\ Len(data) = MaxBars
    /\ i = Len(data)
    /\ Len(portfolio_values) = Len(data)
    /\ Len(trade_pnls) = Len(data)

\* ---------------------------------------------------------------------
\* C18.  At most one entry per side per bar: on a bar the long list grows
\* by at most one position, only in the long entry step and only when the
\* signal is +1, and the short list by at most one, only in the short
\* entry step and only when the signal is -1; with signals in {-1, 0, 1}
\* a bar opens at most one position in all; every created position has
\* qty = lot_size and entry = the bar's price.
\* ---------------------------------------------------------------------
C18_OneEntryPerSide ==
    [][ /\ Len(active_long') > Len(active_long) =>
              /\ pc = "open_long"
              /\ signal = 1
              /\ Len(active_long') = Len(active_long) + 1
              /\ SubSeq(active_long', 1, Len(active_long)) = active_long
              /\ Last(active_long').qty = LotSize
              /\ Last(active_long').entry = price
              /\ Last(active_long').side = "long"
        /\ Len(active_short') > Len(active_short) =>
              /\ pc = "open_short"
              /\ signal = -1
              /\ Len(active_short') = Len(active_short) + 1
              /\ SubSeq(active_short', 1, Len(active_short)) = active_short
              /\ Last(active_short').qty = LotSize
              /\ Last(active_short').entry = price
              /\ Last(active_short').side = "short"
              \* no long was opened on this bar
              /\ i \notin Range(long_bars)
      ]_vars

\* a short has been opened on the bar after the one that opened a long
C18_Witness ==
    /\ pc = "valuation"
    /\ i > 1
    /\ active_long # <<>>
    /\ active_short # <<>>
    /\ Last(long_bars) = i - 1
    /\ Last(short_bars) = i
    /\ Last(active_short).entry = price
    /\ Last(active_short).qty = LotSize

C20_CompleteExitScan ==
    /\ [][ (pc = "close_longs" =>
               /\ LongHits(active_long', price) = {}
               /\ Len(active_long') = Len(active_long)
                      - Cardinality(LongHits(active_long, price))
               /\ active_short' = active_short)
           /\
           (pc = "close_shorts" =>
               /\ ShortHits(active_short', price) = {}
               /\ Len(active_short') = Len(active_short)
                      - Cardinality(ShortHits(active_short, price))
               /\ active_long' = active_long)
        ]_vars
    /\ [](pc = "open_long" =>
             /\ LongHits(active_long, price) = {}
             /\ ShortHits(active_short, price) = {})

\* two shorts equal by value (both entered at 100) met their stop at 104
\* and were both closed by the scan of bar 3
C20_Witness ==
    /\ pc = "open_long"
    /\ i = 3
    /\ data[1] = data[2]
    /\ data[1].price = 100 /\ data[1].signal = -1
    /\ price = 104
    /\ active_short = <<>>
    /\ closed_any
    /\ cash = start_cap - 8 * CommDen - 192 * CommNum

\* ---------------------------------------------------------------------
\* C21.  Cash frame: a step changes cash only when it opens a position,
\* closes one in a scan, or is the forced close; a scan in which no
\* position meets its exit condition, an entry step whose signal is not
\* the side's or whose cost is not covered, and the valuation leave cash
\* and both lists as they were.  Hence at the valuation of a bar on which
\* nothing closed and nothing opened, cash is the cash the bar started
\* with.
\* ---------------------------------------------------------------------
C21_CashFrame ==
    /\ [][  /\ (pc = "close_longs" /\ LongHits(active_long, price) = {})
                  => UNCHANGED <<cash, active_long, active_short>>
            /\ (pc = "close_shorts" /\ ShortHits(active_short, price) = {})
                  => UNCHANGED <<cash, active_long, active_short>>
            /\ (pc = "open_long" /\ ~(signal = 1 /\ cash > CostAt(price)))
                  => UNCHANGED <<cash, active_long, active_short>>
            /\ (pc = "open_short" /\ ~(signal = -1 /\ cash > CostAt(price)))
                  => UNCHANGED <<cash, active_long, active_short>>
            /\ (pc = "valuation")
                  => UNCHANGED <<cash, active_long, active_short>>
            /\ (cash' # cash) =>
                  \/ pc = "close_longs" /\ Len(active_long') < Len(active_long)
                  \/ pc = "close_shorts" /\ Len(active_short') < Len(active_short)
                  \/ pc = "open_long" /\ Len(active_long') > Len(active_long)
                  \/ pc = "open_short" /\ Len(active_short') > Len(active_short)
                  \/ pc = "final"
          ]_vars
    /\ []((/\ pc = "valuation"
           /\ ~closed_any
           /\ i \notin Range(long_bars)
           /\ i \notin Range(short_bars)) => cash = bar_cash)

\* a bar with a long open from the bar before, at another price, on
\* which a sell was refused for lack of cash and nothing closed
C21_Witness ==
    /\ pc = "valuation"
    /\ i = 2
    /\ ~closed_any
    /\ Len(active_long) = 1
    /\ long_bars = <<1>>
    /\ active_short = <<>>
    /\ price # active_long[1].entry
    /\ signal = -1
    /\ cash <= CostAt(price)
    /\ cash = bar_cash

\* a is b with some elements left out, order kept
RECURSIVE IsSubSeq(_, _)
IsSubSeq(a, b) ==
    IF a = <<>> THEN TRUE
    ELSE IF b = <<>> THEN FALSE
    ELSE IF Head(a) = Head(b) THEN IsSubSeq(Tail(a), Tail(b))
    ELSE IsSubSeq(a, Tail(b))

\* ---------------------------------------------------------------------
\* C22.  Position immutability: every open position still has the side
\* and lot size it was created with, the price of the bar that opened it
\* as entry, and the stop and target computed from that entry; a step
\* keeps the positions it does not remove exactly as they were, adds at
\* most a new one at the end in an entry step, and removes positions only
\* in the scan of their side or in the forced close.
\* ---------------------------------------------------------------------
C22_PositionImmutability ==
    /\ [](/\ Len(long_bars) = Len(active_long)
          /\ Len(short_bars) = Len(active_short)
          /\ \A k \in DOMAIN active_long :
                /\ active_long[k].side = "long"
                /\ active_long[k].qty = LotSize
                /\ active_long[k].entry = data[long_bars[k]].price
                /\ active_long[k].sl = active_long[k].entry * (ThrDen - StopNum)
                /\ active_long[k].tp = active_long[k].entry * (ThrDen + TpNum)
          /\ \A k \in DOMAIN active_short :
                /\ active_short[k].side = "short"
                /\ active_short[k].qty = LotSize
                /\ active_short[k].entry = data[short_bars[k]].price
                /\ active_short[k].sl = active_short[k].entry * (ThrDen + StopNum)
                /\ active_short[k].tp = active_short[k].entry * (ThrDen - TpNum))
    /\ [][  /\ (pc = "open_long") =>
                  /\ SubSeq(active_long', 1, Len(active_long)) = active_long
                  /\ Len(active_long') <= Len(active_long) + 1
            /\ (pc = "open_short") =>
                  /\ SubSeq(active_short', 1, Len(active_short)) = active_short
                  /\ Len(active_short') <= Len(active_short) + 1
            /\ (pc # "open_long") => IsSubSeq(active_long', active_long)
            /\ (pc # "open_short") => IsSubSeq(active_short', active_short)
            /\ (Len(active_long') < Len(active_long))
                  => pc \in {"close_longs", "final"}
            /\ (Len(active_short') < Len(active_short))
                  => pc \in {"close_shorts", "final"}
          ]_vars

\* a long opened on bar 1 is still open at the valuation of bar 3, after
\* two bars at other prices, with the levels of its entry
C22_Witness ==
    /\ pc = "valuation"
    /\ i = 3
    /\ active_long # <<>>
    /\ long_bars[1] = 1
    /\ data[2].price # data[1].price
    /\ data[3].price # data[1].price
    /\ data[3].price # data[2].price
    /\ active_long[1].entry = data[1].price
    /\ active_long[1].sl = data[1].price * (ThrDen - StopNum)

\* ---------------------------------------------------------------------
\* C23.  Realized PnL matches the ledger: when the loop has ended with
\* no position left for the forced close, the sum of the trade_pnl
\* records equals cash minus start_cap, for runs that traded longs and for
\* runs that traded shorts.
\* ---------------------------------------------------------------------
C23_PnlMatchesLedger ==
    (pc = "final" /\ active_long = <<>> /\ active_short = <<>>)
        => SeqSum(trade_pnls) = cash - start_cap

\* ---------------------------------------------------------------------
\* C24.  Cash never goes negative: in every state of a run on valid rows
\* (positive prices, start_cap >= 0, lot_size > 0, 0 <= commission < 1)
\* the cash balance is >= 0, price gaps beyond a short's stop included.
\* ---------------------------------------------------------------------
C24_CashNonNegative == cash >= 0

\* list s without its last element
Front(s) == SubSeq(s, 1, Len(s) - 1)

\* ---------------------------------------------------------------------
\* C25.  An entry costs only its commission in the valuation: on a bar
\* before the last on which a position was opened at price p and nothing
\* was closed, the recorded portfolio_value is the value of the cash and
\* positions held before the entry, marked at p, minus p * lot_size *
\* commission; with nothing else open that is the cash the bar started
\* with minus p * lot_size * commission.  The record of such a bar is
\* never rewritten.
\* ---------------------------------------------------------------------
C25_EntryCostsCommission ==
    [][ LET fee == price * LotSize * CommNum
            opened_long  == i \in Range(long_bars)
            opened_short == i \in Range(short_bars)
            longs_before  == IF opened_long THEN Front(active_long)
                                            ELSE active_long
            shorts_before == IF opened_short THEN Front(active_short)
                                             ELSE active_short
            held == SeqSum([k \in DOMAIN longs_before |->
                              longs_before[k].qty * price * CommDen])
                  + SeqSum([k \in DOMAIN shorts_before |->
                              ((shorts_before[k].entry - price)
                                  * shorts_before[k].qty
                               + shorts_before[k].entry
                                  * shorts_before[k].qty) * CommDen])
        IN  /\ (/\ pc = "valuation"
                /\ i < Len(data)
                /\ ~closed_any
                /\ opened_long \/ opened_short) =>
                  /\ Last(portfolio_values') = bar_cash + held - fee
                  /\ (longs_before = <<>> /\ shorts_before = <<>>) =>
                        Last(portfolio_values') = bar_cash - fee
            /\ \A k \in DOMAIN portfolio_values :
                  k < Len(data) => portfolio_values'[k] = portfolio_values[k]
      ]_vars

\* bar 2 of 3 opened a short at 102 beside a long held from bar 1 at 100,
\* nothing closed, and its record is the value before the entry less the
\* commission of the entry
C25_Witness ==
    /\ pc = "close_longs"
    /\ i = 3
    /\ data[1].price = 100 /\ data[1].signal = 1
    /\ data[2].price = 102 /\ data[2].signal = -1
    /\ trade_pnls[2] = 0
    /\ Len(active_long) = 1 /\ Len(active_short) = 1
    /\ portfolio_values[2] =
          portfolio_values[1] + 2 * LotSize * CommDen - 102 * LotSize * CommNum

====
